---- MODULE Spec2Model ----
(***************************************************************************)
(* Model of server/main.py: the session orchestrator that sits between     *)
(* websocket clients and one shared generative pipeline.                   *)
(*                                                                         *)
(*   websocket_endpoint / handle_websocket_data : the Control Loop, one    *)
(*       per websocket connection c \in Conns, split at its awaits         *)
(*   stream.generate : the Streaming Loop, one per user id u \in Ids       *)
(*   App.* modulation state (acid processor, oscillators, frequency zoom   *)
(*       controller): ONE instance per process, held in `mod`              *)
(*   ConnectionManager, ZoomOscillator, ShiftOscillator and                *)
(*       FrequencyZoomController are imported by main.py and are not part  *)
(*       of the source at hand: they follow the written specification      *)
(*       (sections 3, 4.1, 4.2 and 9).                                     *)
(***************************************************************************)
EXTENDS Integers, FiniteSets, Sequences, TLC

VARIABLES
    cfg,          \* self.args / App.__init__ flags, immutable after start-up
    now,          \* time.time(), in whole ticks
    active,       \* conn_manager: user id -> websocket handle (0: not registered)
    slot,         \* conn_manager: user id -> the single "latest data" cell
    cpc,          \* Control Loop position of every connection
    cuid,         \* user_id path parameter of every connection
    last_time,    \* handle_websocket_data's local last_time
    last_msg,     \* history: when the connection's last message arrived
    cparams,      \* handle_websocket_data's local params
    nupd,         \* number of "next_frame" messages the clients have sent
    mod,          \* App's modulation state (shared by all sessions)
    spc,          \* Streaming Loop position, per user id
    last_params,  \* generate()'s local last_params
    frame,        \* the frame generate() last produced
    firefox,      \* is_firefox(request.headers["user-agent"]) of the stream request
    ev,           \* what the last step did (observable effect)
    lastWritten,  \* history: the last ParameterSet written to the session's slot
    wasRetired,   \* history: the id's session has been retired
    lastProcessed,\* history: the ParameterSet of the id's last invocation
    nnew,         \* history: polls that returned a value different from lastProcessed
    npredict      \* history: invocations of pipeline.predict

vars == <<cfg, now, active, slot, cpc, cuid, last_time, last_msg, cparams, nupd, mod,
          spc, last_params, frame, firefox, ev,
          lastWritten, wasRetired, lastProcessed, nnew, npredict>>

regVars    == <<active, slot, lastWritten, wasRetired>>
streamVars == <<spc, last_params, frame, firefox, lastProcessed, nnew, npredict>>

---------------------------------------------------------------------------
(* Bounds of the model *)

NIds == 3           \* distinct user ids
MaxTime == 2        \* clock ticks
MaxUpdates == 2     \* "next_frame" messages over all connections
NImg == 1           \* distinct non-empty image payloads
NPrompt == 2        \* distinct values of the pipeline's parameter fields
MaxKeys == 2        \* keys in one acid_settings object

(* Program constants *)

MaxSessions == 2    \* self.args.max_queue_size, a configured value
Timeout == 1        \* self.args.timeout, a configured value, when positive
MinZoom == 1        \* FrequencyZoomController(min_zoom=1)
MaxZoom == 2        \* FrequencyZoomController(max_zoom=2)
OscMinZoom == 1     \* ZoomOscillator(min_zoom=test_min_zoom), in steps of 0.5
OscMaxZoom == 3     \* ZoomOscillator(max_zoom=test_max_zoom), in steps of 0.5
ShiftMax == 1       \* ShiftOscillator(x_max=, y_max=), in steps of the maximum

\* every connection of any specification: one more than the registry admits
Conns == 1..(MaxSessions + 1)
Ids == 1..NIds

\* the session-level specifications follow one connection and one id, with
\* the id's Streaming Loop
SessionConns == {1}
SessionIds == {1}
Prompts == 1..NPrompt
Bool01 == {0, 1}

---------------------------------------------------------------------------
(* Values *)

NoImage == [raw |-> 0, zoom |-> 0, xs |-> 0, ys |-> 0, bg |-> FALSE]

\* None, as conn_manager.get_latest_data returns for an empty slot
NoneParams == [kind |-> "none", prompt |-> 0, image |-> NoImage]

\* SimpleNamespace(): the initial last_params, whose __dict__ is {}
EmptyNamespace == [kind |-> "empty", prompt |-> 0, image |-> NoImage]

\* SimpleNamespace(**params.dict()) with params.image set afterwards
MkParams(p, img) == [kind |-> "params", prompt |-> p, image |-> img]

NoFrame == [of |-> NoneParams, part |-> 0]

\* op: what was done; u: the user id; c: the connection whose loop did it (0: a
\* Streaming Loop); to: the websocket registered for u at that moment (0: none);
\* st: the status sent or the outcome; arg: the acid_settings of an update, or
\* <<length>> of a binary payload; val: the ParameterSet a poll returned
EventWith(op, u, c, to, st, arg, val) ==
    [op |-> op, u |-> u, c |-> c, to |-> to, st |-> st, arg |-> arg, val |-> val]

Event(op, u, c, to, st) == EventWith(op, u, c, to, st, <<>>, NoneParams)

---------------------------------------------------------------------------
(* Modulation sources: test oscillators and the frequency zoom controller  *)

\* ZoomOscillator.update(): one step of the sweep between the two zoom limits;
\* the new value is the zoom it returns
ZoomOscUpdate(o) ==
    LET d == IF o.val >= OscMaxZoom THEN -1
             ELSE IF o.val <= OscMinZoom THEN 1 ELSE o.dir
    IN [o EXCEPT !.val = o.val + d, !.dir = d]

\* ShiftOscillator.update(): advances both coordinates by their increments,
\* wrapping at the maximum; the new (x, y) is what it returns
ShiftOscUpdate(o) ==
    [o EXCEPT !.x = (o.x + o.xinc) % (ShiftMax + 1),
              !.y = (o.y + o.yinc) % (ShiftMax + 1)]

\* FrequencyZoomController.process_frequency_bins(bins): compares the bins'
\* energy with its running baseline, answers a zoom within [min_zoom, max_zoom]
\* (kept in out) and moves the baseline
FzcZoom(f, bins) == IF f.low * bins > f.baseline THEN MaxZoom ELSE MinZoom

FzcProcess(f, bins) == [f EXCEPT !.baseline = bins, !.out = FzcZoom(f, bins)]

\* FrequencyZoomController.set_sensitivity(low_sensitivity=, high_sensitivity=):
\* an argument of None leaves that sensitivity as it is (-1 stands for None)
FzcSetSensitivity(f, low, high) ==
    [f EXCEPT !.low = IF low = -1 THEN f.low ELSE low,
              !.high = IF high = -1 THEN f.high ELSE high]

---------------------------------------------------------------------------
(* A settings dict is a function from the keys present to their values;    *)
(* booleans are 0/1, binned_fft: null is BinsNull.                          *)

BinsNull == 0

Has(s, k) == k \in DOMAIN s

Val(s, k) == IF k \in DOMAIN s THEN s[k] ELSE -1

\* input-processor and acid-processor settings that are plain setters
MiscKeys == {"do_human_seg", "resizing_factor", "do_blur", "brightness",
             "do_infrared_colorize", "acid_strength", "coef_noise",
             "do_acid_tracers", "acid_strength_foreground",
             "do_acid_wobblers", "color_matching"}

\* App.__init__: the modulation state after construction
InitMod(c) ==
    [zoom |-> 1, zsrc |-> "init", xs |-> 0, ys |-> 0,
     zosc |-> [enabled |-> c.use_test_zoom, val |-> OscMinZoom, dir |-> 1],
     sosc |-> [enabled |-> c.use_test_shift, x |-> 0, y |-> 0, xinc |-> 0, yinc |-> 0],
     fzc  |-> [enabled |-> c.use_frequency_zoom, baseline |-> 0, out |-> 0,
               low |-> 1, high |-> 1],
     misc |-> [k \in MiscKeys |-> 0],
     fb   |-> NoneParams]

\* settings.get(key, 0) in place of the membership tests for the shifts: an
\* absent shift is reset
UpdateAcidSettingsResetsAbsent(m, s) ==
    [m EXCEPT !.xs = IF Has(s, "x_shift") THEN s["x_shift"] ELSE 0,
              !.ys = IF Has(s, "y_shift") THEN s["y_shift"] ELSE 0]

\* App._update_acid_settings(settings), in the order of its statements
UpdateAcidSettings(m, s) ==
    LET m1 == [m EXCEPT !.misc = [k \in MiscKeys |->
                                     IF Has(s, k) THEN s[k] ELSE m.misc[k]]]
        m2 == IF Has(s, "zoom_factor") /\ ~Has(s, "binned_fft")
              THEN [m1 EXCEPT !.zoom = s["zoom_factor"], !.zsrc = "direct"] ELSE m1
        m3 == IF Has(s, "x_shift") THEN [m2 EXCEPT !.xs = s["x_shift"]] ELSE m2
        m4 == IF Has(s, "y_shift") THEN [m3 EXCEPT !.ys = s["y_shift"]] ELSE m3
        m5 == IF Has(s, "low_bin_sensitivity") \/ Has(s, "high_bin_sensitivity")
              THEN [m4 EXCEPT !.fzc = FzcSetSensitivity(m4.fzc,
                                          Val(s, "low_bin_sensitivity"),
                                          Val(s, "high_bin_sensitivity"))]
              ELSE m4
        m6 == IF Has(s, "use_test_zoom")
              THEN [m5 EXCEPT !.zosc.enabled = (s["use_test_zoom"] = 1)] ELSE m5
        m7 == IF Has(s, "use_test_shift")
              THEN [m6 EXCEPT !.sosc.enabled = (s["use_test_shift"] = 1)] ELSE m6
        m8 == IF Has(s, "test_x_shift_increment")
              THEN [m7 EXCEPT !.sosc.xinc = s["test_x_shift_increment"]] ELSE m7
        m9 == IF Has(s, "test_y_shift_increment")
              THEN [m8 EXCEPT !.sosc.yinc = s["test_y_shift_increment"]] ELSE m8
    IN m9

\* the bins processed, set_zoom_factor(new_zoom) forgotten
ApplyUpdateBinsZoomNotSet(m, s) ==
    IF Has(s, "binned_fft") /\ ~m.zosc.enabled /\ s["binned_fft"] # BinsNull
    THEN [m EXCEPT !.fzc = FzcProcess(m.fzc, s["binned_fft"])]
    ELSE m

\* handle_websocket_data, lines 231-241: bins carried by the update drive the
\* zoom, but only while the zoom oscillator is off and the bins are not null
ApplyUpdateBins(m, s) ==
    IF Has(s, "binned_fft") /\ ~m.zosc.enabled /\ s["binned_fft"] # BinsNull
    THEN [m EXCEPT !.zoom = FzcZoom(m.fzc, s["binned_fft"]), !.zsrc = "bins",
                   !.fzc = FzcProcess(m.fzc, s["binned_fft"])]
    ELSE m

\* handle_websocket_data, lines 227-241: what an update's acid_settings do
FuseUpdate(m, s) == ApplyUpdateBins(UpdateAcidSettings(m, s), s)

\* the zoom oscillator run whether enabled or not
TopModulationOscAlways(m, bins) ==
    LET z == ZoomOscUpdate(m.zosc)
    IN [m EXCEPT !.zosc = z, !.zoom = z.val, !.zsrc = "oscillator"]

\* handle_websocket_data, lines 189-215: oscillators and the server-side
\* analyzer at the top of every Control Loop iteration (bins: what
\* fft_analyzer.get_audio_features() returns this time)
TopModulation(m, bins) ==
    LET z  == ZoomOscUpdate(m.zosc)
        m1 == IF m.zosc.enabled
              THEN [m EXCEPT !.zosc = z, !.zoom = z.val, !.zsrc = "oscillator"] ELSE m
        sh == ShiftOscUpdate(m1.sosc)
        m2 == IF m1.sosc.enabled
              THEN [m1 EXCEPT !.sosc = sh, !.xs = sh.x, !.ys = sh.y] ELSE m1
        m3 == IF m2.fzc.enabled
              THEN [m2 EXCEPT !.zoom = FzcZoom(m2.fzc, bins), !.zsrc = "analyzer",
                              !.fzc = FzcProcess(m2.fzc, bins)]
              ELSE m2
    IN m3

\* App._apply_acid_processing: the input image as transformed with the
\* zoom and shift in force
ApplyAcid(img, m) == [img EXCEPT !.zoom = m.zoom, !.xs = m.xs, !.ys = m.ys]

\* App._apply_background_removal
ApplyBackgroundRemoval(img) == [img EXCEPT !.bg = TRUE]

\* bytes_to_pil(image_data)
BytesToPil(data) == [NoImage EXCEPT !.raw = data]

---------------------------------------------------------------------------
(* ConnectionManager: the Session Registry and the per-session slot        *)

\* get_user_count()
UserCount == Cardinality({u \in Ids : active[u] # 0})

\* check_user(user_id)
CheckUser(u) == active[u] # 0

\* connect(): refused with ServerFullException at the configured maximum
ServerFull == UserCount >= MaxSessions

\* connect(), admitted: a fresh session with an empty slot
Admit(u, c) ==
    /\ active' = [active EXCEPT ![u] = c]
    /\ slot' = [slot EXCEPT ![u] = NoneParams]
    /\ lastWritten' = [lastWritten EXCEPT ![u] = NoneParams]
    /\ wasRetired' = [wasRetired EXCEPT ![u] = FALSE]

\* disconnect(user_id): removes the session; a no-op when there is none
Retire(u) ==
    /\ active' = [active EXCEPT ![u] = 0]
    /\ slot' = [slot EXCEPT ![u] = NoneParams]
    /\ wasRetired' = [wasRetired EXCEPT ![u] = @ \/ active[u] # 0]
    /\ UNCHANGED lastWritten

\* a bounded queue of one in place of the overwritten cell: a write is dropped
\* while an earlier value sits in it
UpdateDataKeepsOldest(u, p) ==
    /\ slot' = [slot EXCEPT ![u] = IF @ = NoneParams THEN p ELSE @]
    /\ UNCHANGED <<active, wasRetired>>

\* update_data(user_id, params): overwrites the single slot
UpdateData(u, p) ==
    /\ slot' = [slot EXCEPT ![u] = p]
    /\ UNCHANGED <<active, wasRetired>>

\* get_latest_data(user_id): the slot's content, None when empty or unknown
GetLatestData(u) == IF active[u] # 0 THEN slot[u] ELSE NoneParams

\* What send_json / update_data do for an id that is not registered is not
\* written down: either nothing, or they raise
MissOutcomes == {"noop", "raise"}

---------------------------------------------------------------------------
(* websocket_endpoint and handle_websocket_data: the Control Loop          *)

\* pipeline.predict handed to a worker thread and awaited: the event loop
\* runs the other tasks meanwhile
EventLoopFreeAlways == TRUE

\* generate(), line 289: pipeline.predict is a plain call, not awaited; while
\* it runs, the one event loop runs no other task: every step of a
\* Control Loop or Streaming Loop but the call's own return waits for it
EventLoopFree == \A u \in Ids : spc[u] # "predict"

\* handle_websocket_data, lines 164-167
TimedOut(c) == cfg.timeout_on /\ now - last_time[c] > Timeout

\* the length check left out
IsEmptyPayloadNever(data) == FALSE

\* handle_websocket_data, line 247
IsEmptyPayload(data) == data = 0

\* handle_websocket_data, lines 264-266: the exception handler retires
CtrlFail(c) ==
    /\ Retire(cuid[c])
    /\ cpc' = [cpc EXCEPT ![c] = "finally"]

\* connect called without self.args.max_queue_size: nobody is refused
ConnectUncapped(c, u) ==
    /\ cpc[c] = "new"
    /\ EventLoopFree
    /\ \A d \in 1..(c - 1) : cpc[d] # "new"
    /\ cuid' = [cuid EXCEPT ![c] = u]
    /\ Admit(u, c)
    /\ cpc' = [cpc EXCEPT ![c] = "top"]
    /\ last_time' = [last_time EXCEPT ![c] = now]
    /\ last_msg' = [last_msg EXCEPT ![c] = now]
    /\ ev' = Event("admit", u, c, c, "connected")
    /\ UNCHANGED <<cfg, now, cparams, nupd, mod, streamVars>>

\* websocket_endpoint, lines 146-152: conn_manager.connect, then the loop starts
Connect(c, u) ==
    /\ cpc[c] = "new"
    /\ EventLoopFree
    /\ \A d \in 1..(c - 1) : cpc[d] # "new"
    /\ cuid' = [cuid EXCEPT ![c] = u]
    /\ IF ServerFull
       THEN \* ServerFullException: straight to the finally clause
            /\ cpc' = [cpc EXCEPT ![c] = "refused"]
            /\ ev' = Event("refuse", u, c, active[u], "server_full")
            /\ UNCHANGED <<regVars, last_time, last_msg>>
       ELSE /\ Admit(u, c)
            /\ cpc' = [cpc EXCEPT ![c] = "top"]
            /\ last_time' = [last_time EXCEPT ![c] = now]
            /\ last_msg' = [last_msg EXCEPT ![c] = now]
            /\ ev' = Event("admit", u, c, c, "connected")
    /\ UNCHANGED <<cfg, now, cparams, nupd, mod, streamVars>>

\* handle_websocket_data, lines 163-216: timeout check, then the oscillators
\* and the server-side analyzer, up to the await of the next message
CtrlTop(c, bins) ==
    /\ cpc[c] = "top"
    /\ EventLoopFree
    /\ LET u == cuid[c] IN
       IF TimedOut(c)
       THEN /\ bins = 1
            /\ ev' = Event("timeout", u, c, active[u], "timeout")
            /\ Retire(u)
            /\ cpc' = [cpc EXCEPT ![c] = "finally"]
            /\ UNCHANGED mod
       ELSE /\ (cfg.use_acid_processor /\ mod.fzc.enabled) \/ bins = 1
            /\ mod' = IF cfg.use_acid_processor THEN TopModulation(mod, bins) ELSE mod
            /\ cpc' = [cpc EXCEPT ![c] = "recv"]
            /\ ev' = Event("top", u, c, active[u], "")
            /\ UNCHANGED regVars
    /\ UNCHANGED <<cfg, now, cuid, last_time, last_msg, cparams, nupd, streamVars>>

\* lines 218-221, 246: a receive on an id that is no longer registered fails
CtrlRecvFail(c) ==
    /\ cpc[c] \in {"recv", "params", "bytes"}
    /\ EventLoopFree
    /\ ~CheckUser(cuid[c])
    /\ CtrlFail(c)
    /\ ev' = Event("error", cuid[c], c, 0, cpc[c])
    /\ UNCHANGED <<cfg, now, cuid, last_time, last_msg, cparams, nupd, mod, streamVars>>

\* line 218: data = await receive_json(); "close": the client closed the
\* websocket (WebSocketDisconnect, caught at line 264)
CtrlRecvStatus(c, status) ==
    /\ cpc[c] = "recv"
    /\ EventLoopFree
    /\ CheckUser(cuid[c])
    /\ LET u == cuid[c] IN
       CASE status = "close" ->
              /\ CtrlFail(c)
              /\ ev' = Event("close", u, c, active[u], "")
              /\ UNCHANGED nupd
         [] status = "next_frame" ->
              /\ nupd < MaxUpdates
              /\ nupd' = nupd + 1
              /\ cpc' = [cpc EXCEPT ![c] = "params"]
              /\ ev' = Event("recv", u, c, active[u], status)
              /\ UNCHANGED regVars
         [] OTHER ->
              /\ cpc' = [cpc EXCEPT ![c] = "top"]
              /\ ev' = Event("recv", u, c, active[u], status)
              /\ UNCHANGED <<regVars, nupd>>
    /\ last_msg' = [last_msg EXCEPT ![c] = now]
    /\ UNCHANGED <<cfg, now, cuid, last_time, cparams, mod, streamVars>>

\* the acid_settings applied only where the update is accepted in the same
\* step: after validation, and not while an image payload is still to come
CtrlRecvParamsAfterAccept(c, payload) ==
    /\ cpc[c] = "params"
    /\ EventLoopFree
    /\ CheckUser(cuid[c])
    /\ LET u == cuid[c] IN
       /\ mod' = IF cfg.use_acid_processor /\ payload.has_acid
                    /\ payload.valid /\ ~cfg.image_mode
                 THEN FuseUpdate(mod, payload.acid) ELSE mod
       /\ IF ~payload.valid
          THEN /\ CtrlFail(c)
               /\ ev' = EventWith("params", u, c, active[u], "invalid",
                                   payload.acid, NoneParams)
               /\ UNCHANGED cparams
          ELSE /\ cparams' = [cparams EXCEPT ![c] = MkParams(payload.prompt, NoImage)]
               /\ cpc' = [cpc EXCEPT ![c] = IF cfg.image_mode THEN "bytes" ELSE "write"]
               /\ ev' = EventWith("params", u, c, active[u], "ok",
                                   payload.acid, NoneParams)
               /\ UNCHANGED regVars
    /\ last_msg' = [last_msg EXCEPT ![c] = now]
    /\ UNCHANGED <<cfg, now, cuid, last_time, nupd, streamVars>>

\* lines 221-245: the parameter payload; acid_settings are applied first, then
\* pipeline.InputParams(**params) validates
CtrlRecvParams(c, payload) ==
    /\ cpc[c] = "params"
    /\ EventLoopFree
    /\ CheckUser(cuid[c])
    /\ LET u == cuid[c] IN
       /\ mod' = IF cfg.use_acid_processor /\ payload.has_acid
                 THEN FuseUpdate(mod, payload.acid) ELSE mod
       /\ IF ~payload.valid
          THEN /\ CtrlFail(c)
               /\ ev' = EventWith("params", u, c, active[u], "invalid",
                                   payload.acid, NoneParams)
               /\ UNCHANGED cparams
          ELSE /\ cparams' = [cparams EXCEPT ![c] = MkParams(payload.prompt, NoImage)]
               /\ cpc' = [cpc EXCEPT ![c] = IF cfg.image_mode THEN "bytes" ELSE "write"]
               /\ ev' = EventWith("params", u, c, active[u], "ok",
                                   payload.acid, NoneParams)
               /\ UNCHANGED regVars
    /\ last_msg' = [last_msg EXCEPT ![c] = now]
    /\ UNCHANGED <<cfg, now, cuid, last_time, nupd, streamVars>>

\* lines 246-260: the binary payload, the acid processor, background removal
CtrlRecvBytes(c, data, outcome) ==
    /\ cpc[c] = "bytes"
    /\ EventLoopFree
    /\ CheckUser(cuid[c])
    /\ outcome = "acid_fail" => cfg.use_acid_processor
    /\ outcome = "rembg_fail" => cfg.use_background_removal
    /\ LET u == cuid[c]
           img0 == BytesToPil(data)
           img1 == IF cfg.use_acid_processor THEN ApplyAcid(img0, mod) ELSE img0
           img2 == IF cfg.use_background_removal THEN ApplyBackgroundRemoval(img1) ELSE img1
       IN
       IF IsEmptyPayload(data)
       THEN /\ outcome = "ok"
            /\ ev' = EventWith("resend", u, c, active[u], "send_frame",
                                <<data>>, NoneParams)
            /\ cpc' = [cpc EXCEPT ![c] = "top"]
            /\ cparams' = [cparams EXCEPT ![c] = NoneParams]
            /\ UNCHANGED regVars
       ELSE IF outcome # "ok"
       THEN /\ CtrlFail(c)
            /\ ev' = EventWith("image", u, c, active[u], outcome, <<data>>, NoneParams)
            /\ UNCHANGED cparams
       ELSE /\ cparams' = [cparams EXCEPT ![c].image = img2]
            /\ cpc' = [cpc EXCEPT ![c] = "write"]
            /\ ev' = EventWith("image", u, c, active[u], "ok", <<data>>, NoneParams)
            /\ UNCHANGED regVars
    /\ last_msg' = [last_msg EXCEPT ![c] = now]
    /\ UNCHANGED <<cfg, now, cuid, last_time, nupd, mod, streamVars>>

\* the acknowledgement without the write: update_data left out
CtrlWriteSkipsSlot(c, miss) ==
    /\ cpc[c] = "write"
    /\ EventLoopFree
    /\ miss = "noop"
    /\ cpc' = [cpc EXCEPT ![c] = "ack"]
    /\ ev' = Event("write", cuid[c], c, active[cuid[c]], "skipped")
    /\ UNCHANGED <<cfg, now, regVars, cuid, last_time, last_msg, cparams, nupd, mod, streamVars>>

\* line 261: await conn_manager.update_data(user_id, params)
CtrlWrite(c, miss) ==
    /\ cpc[c] = "write"
    /\ EventLoopFree
    /\ LET u == cuid[c] IN
       IF CheckUser(u)
       THEN /\ miss = "noop"
            /\ UpdateData(u, cparams[c])
            /\ lastWritten' = [lastWritten EXCEPT ![u] = cparams[c]]
            /\ cpc' = [cpc EXCEPT ![c] = "ack"]
            /\ ev' = Event("write", u, c, active[u], "ok")
       ELSE IF miss = "raise"
       THEN /\ CtrlFail(c)
            /\ ev' = Event("error", u, c, 0, "write")
       ELSE /\ cpc' = [cpc EXCEPT ![c] = "ack"]
            /\ ev' = Event("write", u, c, 0, "noop")
            /\ UNCHANGED regVars
    /\ UNCHANGED <<cfg, now, cuid, last_time, last_msg, cparams, nupd, mod, streamVars>>

\* line 262: await conn_manager.send_json(user_id, {"status": "wait"})
CtrlAck(c, miss) ==
    /\ cpc[c] = "ack"
    /\ EventLoopFree
    /\ LET u == cuid[c] IN
       IF CheckUser(u) \/ miss = "noop"
       THEN /\ CheckUser(u) => miss = "noop"
            /\ cpc' = [cpc EXCEPT ![c] = "top"]
            /\ ev' = Event("ack", u, c, active[u], "wait")
            /\ UNCHANGED regVars
       ELSE /\ CtrlFail(c)
            /\ ev' = Event("error", u, c, 0, "ack")
    /\ cparams' = [cparams EXCEPT ![c] = NoneParams]
    /\ UNCHANGED <<cfg, now, cuid, last_time, last_msg, nupd, mod, streamVars>>

\* websocket_endpoint, lines 153-155: finally: conn_manager.disconnect(user_id)
EndpointFinally(c) ==
    /\ cpc[c] \in {"finally", "refused"}
    /\ EventLoopFree
    /\ Retire(cuid[c])
    /\ cpc' = [cpc EXCEPT ![c] = "closed"]
    /\ ev' = Event("finally", cuid[c], c, active[cuid[c]], "disconnect")
    /\ cparams' = [cparams EXCEPT ![c] = NoneParams]
    /\ UNCHANGED <<cfg, now, cuid, last_time, last_msg, nupd, mod, streamVars>>

---------------------------------------------------------------------------
(* stream.generate: the Streaming Loop                                     *)

\* "params is last_params": identity in place of value equality
SameParamsByIdentity(p, q) == FALSE

\* generate(), line 285: params.__dict__ == last_params.__dict__
SameParams(p, q) == [p EXCEPT !.kind = "dict"] = [q EXCEPT !.kind = "dict"]

\* the acid processor given the image before the safety check
FeedbackUpdateBeforeCheck(m, p, suppressed) ==
    IF cfg.use_acid_processor THEN [m EXCEPT !.fb = p] ELSE m

\* generate(), lines 291-303: a flagged result is dropped before the acid
\* processor is given the new image
FeedbackUpdate(m, p, suppressed) ==
    IF cfg.use_acid_processor /\ ~suppressed THEN [m EXCEPT !.fb = p] ELSE m

\* pil_to_frame(pipeline.predict(params)): the frame of this ParameterSet
Predict(p) == [of |-> p, part |-> 1]

\* GET /api/stream/{user_id}: generate() starts; any id may be asked for
StreamStart(u, ff) ==
    /\ spc[u] = "off"
    /\ EventLoopFree
    /\ spc' = [spc EXCEPT ![u] = "signal"]
    /\ last_params' = [last_params EXCEPT ![u] = EmptyNamespace]
    /\ firefox' = [firefox EXCEPT ![u] = ff]
    /\ ev' = Event("stream_start", u, 0, active[u], "")
    /\ UNCHANGED <<cfg, now, regVars, cpc, cuid, last_time, last_msg, cparams, nupd, mod,
                   frame, lastProcessed, nnew, npredict>>

\* generate(), lines 280-283: send_json(user_id, {"status": "send_frame"})
StreamSignal(u, miss) ==
    /\ spc[u] = "signal"
    /\ EventLoopFree
    /\ CheckUser(u) => miss = "noop"
    /\ IF miss = "noop"
       THEN /\ spc' = [spc EXCEPT ![u] = "poll"]
            /\ ev' = Event("signal", u, 0, active[u], "send_frame")
       ELSE /\ spc' = [spc EXCEPT ![u] = "crashed"]
            /\ ev' = Event("stream_error", u, 0, 0, "signal")
    /\ UNCHANGED <<cfg, now, regVars, cpc, cuid, last_time, last_msg, cparams, nupd, mod,
                   last_params, frame, firefox, lastProcessed, nnew, npredict>>

\* generate(), lines 284-289: the poll returns; None and an unchanged value end
\* the iteration, a new value is recorded and pipeline.predict is called
StreamPoll(u) ==
    /\ spc[u] = "poll"
    /\ EventLoopFree
    /\ npredict[u] <= MaxUpdates
    /\ LET p == GetLatestData(u)
           isNew == p.kind # "none" /\ ~SameParams(p, last_params[u])
       IN
       /\ nnew' = [nnew EXCEPT ![u] = IF p.kind # "none" /\ p # lastProcessed[u]
                                      THEN @ + 1 ELSE @]
       /\ IF p.kind = "none"
          THEN \* None has no __dict__: AttributeError ends the generator
               /\ spc' = [spc EXCEPT ![u] = "crashed"]
               /\ ev' = EventWith("stream_error", u, 0, active[u], "poll", <<>>, p)
               /\ UNCHANGED <<last_params, lastProcessed, npredict>>
          ELSE IF ~isNew
          THEN \* await asyncio.sleep(THROTTLE); continue
               /\ spc' = [spc EXCEPT ![u] = "signal"]
               /\ ev' = EventWith("skip", u, 0, active[u], "sleep", <<>>, p)
               /\ UNCHANGED <<last_params, lastProcessed, npredict>>
          ELSE /\ last_params' = [last_params EXCEPT ![u] = p]
               /\ lastProcessed' = [lastProcessed EXCEPT ![u] = p]
               /\ npredict' = [npredict EXCEPT ![u] = @ + 1]
               /\ spc' = [spc EXCEPT ![u] = "predict"]
               /\ ev' = EventWith("invoke", u, 0, active[u], "predict", <<>>, p)
    /\ UNCHANGED <<cfg, now, regVars, cpc, cuid, last_time, last_msg, cparams, nupd, mod,
                   frame, firefox>>

\* what an invocation comes to: a result, a result the safety checker flags,
\* or an exception of the pipeline
PredictResults == {"ok", "flagged", "raise"}

\* generate(), lines 289-308: pipeline.predict returns, then everything up to
\* the next suspension (the first yield, or the next iteration's send_json)
StreamPredictReturn(u, result) ==
    /\ spc[u] = "predict"
    /\ result = "flagged" => cfg.safety_checker
    /\ LET p == last_params[u] IN
       CASE result = "raise" ->
              \* nothing in generate() catches it: the generator ends
              /\ spc' = [spc EXCEPT ![u] = "crashed"]
              /\ ev' = EventWith("stream_error", u, 0, active[u], "predict", <<>>, p)
              /\ UNCHANGED <<mod, frame>>
         [] result = "flagged" ->
              \* image = None; continue
              /\ mod' = FeedbackUpdate(mod, p, TRUE)
              /\ spc' = [spc EXCEPT ![u] = "signal"]
              /\ ev' = EventWith("suppressed", u, 0, active[u], "nsfw", <<>>, p)
              /\ UNCHANGED frame
         [] OTHER ->
              /\ mod' = FeedbackUpdate(mod, p, FALSE)
              /\ frame' = [frame EXCEPT ![u] = Predict(p)]
              /\ spc' = [spc EXCEPT ![u] = "yield1"]
              /\ ev' = EventWith("frame", u, 0, active[u], "part1", <<>>, p)
    /\ UNCHANGED <<cfg, now, regVars, cpc, cuid, last_time, last_msg, cparams, nupd,
                   last_params, firefox, lastProcessed, nnew, npredict>>

\* the second yield without the user-agent test
StreamResume1DupForAll(u) ==
    /\ spc[u] = "yield1"
    /\ EventLoopFree
    /\ frame' = [frame EXCEPT ![u].part = 2]
    /\ spc' = [spc EXCEPT ![u] = "yield2"]
    /\ ev' = Event("frame", u, 0, active[u], "part2")
    /\ UNCHANGED <<cfg, now, regVars, cpc, cuid, last_time, last_msg, cparams, nupd, mod,
                   last_params, firefox, lastProcessed, nnew, npredict>>

\* generate(), lines 308-311: resumed after the first yield
StreamResume1(u) ==
    /\ spc[u] = "yield1"
    /\ EventLoopFree
    /\ IF ~firefox[u]
       THEN /\ frame' = [frame EXCEPT ![u].part = 2]
            /\ spc' = [spc EXCEPT ![u] = "yield2"]
            /\ ev' = Event("frame", u, 0, active[u], "part2")
       ELSE /\ spc' = [spc EXCEPT ![u] = "signal"]
            /\ ev' = Event("resume", u, 0, active[u], "")
            /\ frame' = [frame EXCEPT ![u] = NoFrame]
    /\ UNCHANGED <<cfg, now, regVars, cpc, cuid, last_time, last_msg, cparams, nupd, mod,
                   last_params, firefox, lastProcessed, nnew, npredict>>

\* generate(), lines 311-313: resumed after the second yield
StreamResume2(u) ==
    /\ spc[u] = "yield2"
    /\ EventLoopFree
    /\ spc' = [spc EXCEPT ![u] = "signal"]
    /\ frame' = [frame EXCEPT ![u] = NoFrame]
    /\ ev' = Event("resume", u, 0, active[u], "")
    /\ UNCHANGED <<cfg, now, regVars, cpc, cuid, last_time, last_msg, cparams, nupd, mod,
                   last_params, firefox, lastProcessed, nnew, npredict>>

\* time.time() advances; it is read only when a timeout is configured
Tick ==
    /\ cfg.timeout_on
    /\ now < MaxTime
    /\ now' = now + 1
    /\ ev' = Event("tick", 0, 0, 0, "")
    /\ UNCHANGED <<cfg, regVars, cpc, cuid, last_time, last_msg, cparams, nupd, mod, streamVars>>

---------------------------------------------------------------------------
(* Inputs *)

BinVals == 1..2

Settings0 == <<>>

Payload(p, v, h, a) == [prompt |-> p, valid |-> v, has_acid |-> h, acid |-> a]

\* parameter payloads of the session-level specification
Payloads ==
    {Payload(p, TRUE, FALSE, Settings0) : p \in Prompts}
    \cup {Payload(1, FALSE, FALSE, Settings0),
          Payload(1, TRUE, TRUE, ("zoom_factor" :> 2))}

Statuses == {"next_frame", "other", "close"}

ImageOutcomes == {"ok", "acid_fail", "rembg_fail"}

ConfigOf(acid, safety, image, bg, fz, tmo, tz, ts) ==
    [use_acid_processor |-> acid, safety_checker |-> safety, image_mode |-> image,
     use_background_removal |-> bg, use_frequency_zoom |-> fz, timeout_on |-> tmo,
     use_test_zoom |-> tz, use_test_shift |-> ts]

\* configurations of the session-level specification: image mode with the
\* acid processor, the safety checker and background removal; text mode with
\* everything off and a timeout; image mode with the acid processor and the
\* server-side frequency zoom, no safety checker
Configs ==
    {ConfigOf(TRUE, TRUE, TRUE, TRUE, FALSE, FALSE, FALSE, FALSE),
     ConfigOf(FALSE, FALSE, FALSE, FALSE, FALSE, TRUE, FALSE, FALSE),
     ConfigOf(TRUE, FALSE, TRUE, FALSE, TRUE, FALSE, FALSE, FALSE)}

\* configurations of the admission specification
AdmitConfigs ==
    {ConfigOf(TRUE, TRUE, TRUE, TRUE, FALSE, TRUE, FALSE, FALSE),
     ConfigOf(FALSE, FALSE, FALSE, FALSE, FALSE, FALSE, FALSE, FALSE)}

\* configurations of the fusion specification, all with the acid processor:
\* text mode with no modulation source on at start-up; text mode with the
\* server-side frequency zoom; image mode with the zoom oscillator, where the
\* update's image is processed with the values in force
FusionConfigs ==
    {ConfigOf(TRUE, FALSE, FALSE, FALSE, FALSE, FALSE, FALSE, FALSE),
     ConfigOf(TRUE, FALSE, FALSE, FALSE, TRUE, FALSE, FALSE, FALSE),
     ConfigOf(TRUE, FALSE, TRUE, FALSE, FALSE, FALSE, TRUE, FALSE)}

\* acid_settings of the fusion specification: at most MaxKeys of these keys
FusionKeys == {"zoom_factor", "binned_fft", "x_shift", "y_shift",
               "use_test_zoom", "use_test_shift"}

KeyVals(k) ==
    CASE k = "zoom_factor" -> {3}
      [] k = "binned_fft" -> {BinsNull} \cup BinVals
      [] k \in {"x_shift", "y_shift"} -> {1}
      [] OTHER -> Bool01

FusionSettings ==
    UNION {{s \in [ks -> 0..3] : \A k \in ks : s[k] \in KeyVals(k)} :
             ks \in {x \in SUBSET FusionKeys : Cardinality(x) <= MaxKeys}}

FusionPayloads ==
    {Payload(1, TRUE, TRUE, s) : s \in FusionSettings}
    \cup {Payload(1, TRUE, FALSE, Settings0),
          Payload(1, FALSE, TRUE, ("x_shift" :> 1))}

InitWith(configs) ==
    /\ cfg \in configs
    /\ now = 0
    /\ active = [u \in Ids |-> 0]
    /\ slot = [u \in Ids |-> NoneParams]
    /\ cpc = [c \in Conns |-> "new"]
    /\ cuid = [c \in Conns |-> 1]
    /\ last_time = [c \in Conns |-> 0]
    /\ last_msg = [c \in Conns |-> 0]
    /\ cparams = [c \in Conns |-> NoneParams]
    /\ nupd = 0
    /\ mod = InitMod(cfg)
    /\ spc = [u \in Ids |-> "off"]
    /\ last_params = [u \in Ids |-> EmptyNamespace]
    /\ frame = [u \in Ids |-> NoFrame]
    /\ firefox = [u \in Ids |-> FALSE]
    /\ ev = Event("init", 0, 0, 0, "")
    /\ lastWritten = [u \in Ids |-> NoneParams]
    /\ wasRetired = [u \in Ids |-> FALSE]
    /\ lastProcessed = [u \in Ids |-> NoneParams]
    /\ nnew = [u \in Ids |-> 0]
    /\ npredict = [u \in Ids |-> 0]

Init == InitWith(Configs)

\* the steps of the Control Loops of connections cs, for the ids us, with the
\* client messages drawn from statuses and payloads
CtrlNext(cs, us, statuses, payloads) ==
    \/ \E c \in cs, u \in us : Connect(c, u)
    \/ \E c \in cs, bins \in BinVals : CtrlTop(c, bins)
    \/ \E c \in cs, status \in statuses : CtrlRecvStatus(c, status)
    \/ \E c \in cs, payload \in payloads : CtrlRecvParams(c, payload)
    \/ \E c \in cs, data \in 0..NImg, outcome \in ImageOutcomes :
          CtrlRecvBytes(c, data, outcome)
    \/ \E c \in cs, miss \in MissOutcomes : CtrlWrite(c, miss)
    \/ \E c \in cs, miss \in MissOutcomes : CtrlAck(c, miss)
    \/ \E c \in cs : EndpointFinally(c)

\* the steps of the Streaming Loops of the ids us
StreamNext(us) ==
    \/ \E u \in us, ff \in BOOLEAN : StreamStart(u, ff)
    \/ \E u \in us, miss \in MissOutcomes : StreamSignal(u, miss)
    \/ \E u \in us : StreamPoll(u)
    \/ \E u \in us : StreamResume1(u)
    \/ \E u \in us : StreamResume2(u)
    \/ \E u \in us, result \in PredictResults : StreamPredictReturn(u, result)

Next ==
    \/ CtrlNext(SessionConns, SessionIds, Statuses, Payloads)
    \/ StreamNext(SessionIds)
    \/ Tick

Spec == Init /\ [][Next]_vars

\* The scheduler runs every task that is not waiting for its client: the
\* Control Loop between two receives, the Streaming Loop, the clock
FairSpec ==
    /\ Spec
    /\ \A c \in SessionConns :
          /\ WF_vars(\E bins \in BinVals : CtrlTop(c, bins))
          /\ WF_vars(\E miss \in MissOutcomes : CtrlWrite(c, miss))
          /\ WF_vars(\E miss \in MissOutcomes : CtrlAck(c, miss))
          /\ WF_vars(EndpointFinally(c))
    /\ WF_vars(StreamNext(SessionIds))
    /\ WF_vars(Tick)

\* Admission: one more connection than the registry admits, over all ids, with
\* clients that connect, idle and close or break off
AdmitNext ==
    \/ \E c \in Conns, u \in Ids : Connect(c, u)
    \/ \E c \in Conns : CtrlTop(c, 1)
    \/ \E c \in Conns : CtrlRecvFail(c)
    \/ \E c \in Conns : CtrlRecvStatus(c, "close")
    \/ \E c \in Conns : EndpointFinally(c)
    \/ Tick

AdmitSpec == InitWith(AdmitConfigs) /\ [][AdmitNext]_vars

\* Fusion: one session's Control Loop with rich acid_settings
FusionNext == CtrlNext(SessionConns, SessionIds, Statuses, FusionPayloads)

FusionSpec == InitWith(FusionConfigs) /\ [][FusionNext]_vars

\* Sharing: two sessions, each with its Control Loop and its Streaming Loop,
\* on the one pipeline and the one App; image mode with the acid processor
SharedConns == {1, 2}

SharedConfigs == {ConfigOf(TRUE, FALSE, TRUE, FALSE, FALSE, FALSE, FALSE, FALSE)}

SharedPayloads ==
    {Payload(1, TRUE, FALSE, Settings0),
     Payload(1, TRUE, TRUE, ("zoom_factor" :> 2))}

SharedNext ==
    \/ \E c \in SharedConns : Connect(c, c)
    \/ \E c \in SharedConns : CtrlTop(c, 1)
    \/ \E c \in SharedConns : CtrlRecvStatus(c, "next_frame")
    \/ \E c \in SharedConns, payload \in SharedPayloads : CtrlRecvParams(c, payload)
    \/ \E c \in SharedConns : CtrlRecvBytes(c, 1, "ok")
    \/ \E c \in SharedConns : CtrlWrite(c, "noop")
    \/ \E c \in SharedConns : CtrlAck(c, "noop")
    \/ \E u \in SharedConns : StreamStart(u, TRUE)
    \/ \E u \in SharedConns : StreamSignal(u, "noop")
    \/ \E u \in SharedConns : StreamPoll(u)
    \/ \E u \in SharedConns : StreamPredictReturn(u, "ok")
    \/ \E u \in SharedConns : StreamResume1(u)

SharedSpec == InitWith(SharedConfigs) /\ [][SharedNext]_vars

\* Settings: App._update_acid_settings applied to one settings dict after
\* another, with and without the acid processor
ApplySettings(s) ==
    /\ nupd < MaxUpdates
    /\ nupd' = nupd + 1
    /\ mod' = IF cfg.use_acid_processor THEN UpdateAcidSettings(mod, s) ELSE mod
    /\ ev' = EventWith("settings", 0, 0, 0, "", s, NoneParams)
    /\ UNCHANGED <<cfg, now, regVars, cpc, cuid, last_time, last_msg, cparams, streamVars>>

SettingsConfigs ==
    {ConfigOf(TRUE, FALSE, FALSE, FALSE, FALSE, FALSE, FALSE, FALSE),
     ConfigOf(FALSE, FALSE, FALSE, FALSE, FALSE, FALSE, FALSE, FALSE)}

\* one key for each kind of statement of _update_acid_settings: a plain
\* setter, the direct zoom and the bins that suppress it, a shift, the two
\* sensitivities (set together), an oscillator toggle and an increment
SettingsKeys ==
    {"do_blur", "zoom_factor", "binned_fft", "x_shift",
     "low_bin_sensitivity", "high_bin_sensitivity", "use_test_zoom",
     "test_x_shift_increment"}

\* the value sent for a key: one that differs from the value after start-up
SettingsVal(k) ==
    CASE k = "zoom_factor" -> 3
      [] k \in {"low_bin_sensitivity", "high_bin_sensitivity"} -> 0
      [] OTHER -> 1

SettingsInputs ==
    {[k \in ks |-> SettingsVal(k)] :
        ks \in {x \in SUBSET SettingsKeys : Cardinality(x) <= MaxKeys}}

SettingsNext == \E s \in SettingsInputs : ApplySettings(s)

SettingsSpec == InitWith(SettingsConfigs) /\ [][SettingsNext]_vars

---------------------------------------------------------------------------
(* Properties *)

\* the step just taken was a poll of id u's slot by its Streaming Loop
PollEvent ==
    \/ ev.op \in {"skip", "invoke"}
    \/ ev.op = "stream_error" /\ ev.st = "poll"

C2_PollSeesLatest ==
    PollEvent => ev.val \in {NoneParams, lastWritten[ev.u]}

C2_Witness ==
    /\ ev.op = "invoke"
    /\ npredict[ev.u] = 2
    /\ ev.val = lastWritten[ev.u]

\* C3: with a test oscillator enabled for a field, an update that supplies a
\* direct value for that field leaves the oscillator's value of this tick in
\* force, not the direct value.
C3_OscillatorBeatsDirect ==
    [][\A c \in SessionConns :
         (cpc[c] = "params" /\ ev'.op = "params" /\ ev'.c = c)
            => /\ (mod.zosc.enabled /\ mod'.zosc.enabled /\ Has(ev'.arg, "zoom_factor"))
                     => mod'.zoom = mod.zosc.val
               /\ (mod.sosc.enabled /\ mod'.sosc.enabled /\ Has(ev'.arg, "x_shift"))
                     => mod'.xs = mod.sosc.x
               /\ (mod.sosc.enabled /\ mod'.sosc.enabled /\ Has(ev'.arg, "y_shift"))
                     => mod'.ys = mod.sosc.y]_vars

\* C4: with the zoom oscillator off, an update that carries frequency bins and
\* a direct zoom leaves the zoom the audio-reactive controller returned for
\* those bins in force, not the direct zoom. (The oscillator is off when the
\* bins are looked at, that is once the update's own settings are applied.)
C4_BinsBeatDirect ==
    (/\ ev.op = "params"
     /\ cfg.use_acid_processor
     /\ Has(ev.arg, "binned_fft") /\ Has(ev.arg, "zoom_factor")
     /\ ev.arg["binned_fft"] # BinsNull
     /\ ~mod.zosc.enabled)
       => /\ mod.fzc.baseline = ev.arg["binned_fft"]
          /\ mod.zoom = mod.fzc.out
          /\ mod.zsrc = "bins"

C4_Witness ==
    /\ ev.op = "params"
    /\ Has(ev.arg, "binned_fft") /\ Has(ev.arg, "zoom_factor")
    /\ ev.arg["binned_fft"] # BinsNull
    /\ ~mod.zosc.enabled
    /\ mod.zoom = MinZoom /\ mod.zoom # ev.arg["zoom_factor"]

\* an update that supplies a direct zoom without bins, the oscillator being
\* off, puts that zoom in force
DirectZoomApplied ==
    \A c \in SessionConns :
        (/\ cpc[c] = "params" /\ ev'.op = "params" /\ ev'.c = c
         /\ Has(ev'.arg, "zoom_factor") /\ ~Has(ev'.arg, "binned_fft")
         /\ ~mod.zosc.enabled)
           => mod'.zoom = ev'.arg["zoom_factor"] /\ mod'.zsrc = "direct"

C6_InvokedOncePerNewValue ==
    \A u \in Ids : npredict[u] = nnew[u]

C6_Witness ==
    ev.op = "skip" /\ npredict[ev.u] = 1 /\ ev.val = lastProcessed[ev.u]

\* C7: with a timeout configured, a session whose client has sent nothing for
\* longer than the timeout is sent the timeout message and retired, without
\* any further message from the client.
C7_IdleSessionTimesOut ==
    \A c \in SessionConns :
        (/\ cfg.timeout_on
         /\ cpc[c] = "recv" /\ CheckUser(cuid[c])
         /\ now - last_msg[c] > Timeout)
           ~> (\/ ev.op = "timeout" /\ ev.c = c /\ ~CheckUser(cuid[c])
               \/ cpc[c] # "recv")

\* C8: a result the safety checker flags yields no frame and leaves the
\* feedback buffer alone; the session stays active and the Streaming Loop goes
\* round to its next iteration, the flagged ParameterSet counted as processed.
C8_SuppressedFrame ==
    [][\A u \in Ids :
         (spc[u] = "predict" /\ ev'.op = "suppressed" /\ ev'.u = u)
            => /\ cfg.safety_checker
               /\ frame' = frame
               /\ mod'.fb = mod.fb
               /\ active' = active /\ CheckUser(u)
               /\ spc'[u] = "signal"
               /\ last_params'[u] = ev'.val]_vars

C8_Witness ==
    /\ ev.op = "suppressed"
    /\ cfg.use_acid_processor
    /\ mod.fb # ev.val
    /\ spc[ev.u] = "signal"

\* C9: in image mode a binary payload of length zero is answered with
\* "send_frame"; the slot is not written, the loop goes back to its top without
\* the write and the "wait" of that update, and the session stays active.
C9_EmptyImageResend ==
    [][\A c \in Conns :
         (/\ cpc[c] = "bytes" /\ ev'.c = c
          /\ ev'.op \in {"resend", "image"}
          /\ ev'.arg[1] = 0)
            => /\ ev'.op = "resend" /\ ev'.st = "send_frame" /\ ev'.to = c
               /\ slot' = slot /\ lastWritten' = lastWritten
               /\ cpc'[c] = "top"
               /\ active' = active /\ CheckUser(cuid[c])]_vars

C9_Witness ==
    /\ ev.op = "resend"
    /\ cfg.image_mode
    /\ cpc[ev.c] = "top" /\ CheckUser(ev.u)
    /\ slot[ev.u] # NoneParams

\* C10: a session is retired once, on every exit of its Control Loop, and from
\* then on neither loop touches the session's slot or connection. (The
\* Streaming Loop looked at is one that served the session: it has processed a
\* ParameterSet the session's Control Loop wrote.)
C10_RetiredOnceThenSilent ==
    /\ \A c \in SessionConns :
          cpc[c] = "closed" => (~CheckUser(cuid[c]) /\ wasRetired[cuid[c]])
    /\ ~(/\ ev.op \in {"signal", "stream_error"}
         /\ ev.to = 0
         /\ wasRetired[ev.u]
         /\ last_params[ev.u].kind = "params")

\* C11: a parameter payload that fails the pipeline's validation costs only
\* that update: the slot is not written, the session stays active and the
\* Control Loop goes back to its top for the next message.
C11_InvalidUpdateDiscarded ==
    [][\A c \in SessionConns :
         (cpc[c] = "params" /\ ev'.op = "params" /\ ev'.c = c /\ ev'.st = "invalid")
            => /\ slot' = slot
               /\ active' = active /\ CheckUser(cuid[c])'
               /\ cpc'[c] = "top"]_vars

\* C12: an exception of the acid processor or of background removal while an
\* input image is processed does not retire the session: the Control Loop goes
\* on to write the ParameterSet, with the image as far as it was processed.
C12_ProcessorFailureTolerated ==
    [][\A c \in SessionConns :
         (/\ cpc[c] = "bytes" /\ ev'.op = "image" /\ ev'.c = c
          /\ ev'.st \in {"acid_fail", "rembg_fail"})
            => /\ active' = active /\ CheckUser(cuid[c])'
               /\ cpc'[c] = "write"
               /\ cparams'[c].image.raw = ev'.arg[1]]_vars

\* C13: over all sessions, at most one invocation of pipeline.predict is in
\* progress at any time: no Streaming Loop starts one while another session's
\* has started and not yet returned.
C13_OneInvocationAtATime ==
    /\ Cardinality({u \in Ids : spc[u] = "predict"}) <= 1
    /\ (ev.op = "invoke") => \A v \in Ids \ {ev.u} : spc[v] # "predict"

\* one session's invocation is running while the other session's Streaming
\* Loop has a new ParameterSet waiting to be polled
C13_Witness ==
    \E u, v \in SharedConns :
        /\ u # v
        /\ spc[u] = "predict"
        /\ spc[v] = "poll" /\ CheckUser(v)
        /\ slot[v].kind = "params" /\ ~SameParams(slot[v], last_params[v])

\* C14: the modulation values applied to a session's updates are changed by
\* that session's own loops only: while session B has an update under way (its
\* parameters received, its image still to be processed with the values in
\* force), no step of another session's Control Loop or Streaming Loop changes
\* the modulation values.
C14_ModulationIsolated ==
    [][\A a, b \in SharedConns :
         (/\ a # b
          /\ CheckUser(cuid[a]) /\ CheckUser(cuid[b]) /\ cuid[a] # cuid[b]
          /\ cpc[b] = "bytes"
          /\ \/ ev'.c = a
             \/ ev'.c = 0 /\ ev'.u = cuid[a] /\ ev'.op # "tick")
            => mod' = mod]_vars

\* C15: an exception raised inside the Streaming Loop of an active session ends
\* that loop and retires that session, and changes no other session.
C15_StreamFailureRetires ==
    [][\A u \in Ids :
         (ev'.op = "stream_error" /\ ev'.u = u /\ CheckUser(u))
            => /\ spc'[u] = "crashed"
               /\ ~CheckUser(u)'
               /\ \A v \in Ids \ {u} : active'[v] = active[v] /\ spc'[v] = spc[v]]_vars

\* C16: a refused admission, the endpoint's cleanup included, leaves the active
\* set as it was: every session active before the attempt is active after it,
\* also when the refused attempt came with the id of an active session.
C16_RefusalLeavesActiveSet ==
    [][\A c \in Conns :
         (\/ cpc[c] = "new" /\ cpc'[c] = "refused"
          \/ cpc[c] = "refused" /\ cpc'[c] # "refused")
            => active' = active]_vars

\* C17: once a session has been retired, its Streaming Loop emits no frame, and
\* no frame part, any more.
C17_NoFrameAfterRetirement ==
    ~(/\ ev.op = "frame"
      /\ wasRetired[ev.u] /\ ~CheckUser(ev.u))

\* C18: the timeout message is sent only when the time since the session's
\* last received message exceeds the timeout.
C18_TimeoutOnlyWhenIdle ==
    (ev.op = "timeout") => (now - last_msg[ev.c] > Timeout)

\* C19: a new ParameterSet with a result that is not suppressed is invoked once
\* and its frame is emitted as two identical parts to a client that is not
\* Firefox, as one part to Firefox; the user agent alone decides, and the
\* duplicate is neither a second invocation nor a second feedback update.
C19_FramePartsByUserAgent ==
    [][\A u \in Ids :
         /\ (ev'.op = "frame" /\ ev'.st = "part1" /\ ev'.u = u)
               => /\ spc[u] = "predict"
                  /\ frame'[u] = Predict(lastProcessed[u])
                  /\ npredict'[u] = npredict[u]
         /\ (spc[u] = "yield1" /\ spc'[u] # "yield1")
               => /\ IF firefox[u]
                     THEN ev'.op = "resume" /\ spc'[u] = "signal"
                     ELSE /\ ev'.op = "frame" /\ ev'.st = "part2" /\ ev'.u = u
                          /\ frame'[u].of = frame[u].of
                          /\ spc'[u] = "yield2"
                  /\ npredict' = npredict /\ mod' = mod
         /\ (spc[u] = "yield2" /\ spc'[u] # "yield2")
               => /\ ev'.op = "resume" /\ spc'[u] = "signal"
                  /\ npredict' = npredict /\ mod' = mod]_vars

C19_Witness ==
    /\ ev.op = "frame" /\ ev.st = "part2"
    /\ ~firefox[ev.u]
    /\ frame[ev.u].of = lastProcessed[ev.u]
    /\ npredict[ev.u] = 1
    /\ cfg.use_acid_processor /\ mod.fb = lastProcessed[ev.u]

\* C20: in the Control Loop a write of a ParameterSet to the slot is followed,
\* as the loop's very next step and before it reads another message, by one
\* "wait" to that session; and a "wait" is sent only for an update that wrote
\* the slot.
C20_WriteThenWait ==
    [][\A c \in SessionConns :
         /\ (ev'.op = "write" /\ ev'.c = c /\ ev'.st = "ok")
               => cpc[c] = "write" /\ cpc'[c] = "ack"
         /\ (cpc[c] = "ack" /\ cpc'[c] # "ack" /\ CheckUser(cuid[c]))
               => /\ ev'.op = "ack" /\ ev'.st = "wait" /\ ev'.to = c
                  /\ cpc'[c] = "top"
                  /\ slot' = slot
         /\ (ev'.op = "ack" /\ ev'.c = c)
               => /\ cpc[c] = "ack"
                  /\ cparams[c].kind = "params"
                  /\ lastWritten[cuid[c]] = cparams[c]]_vars

C20_Witness ==
    /\ ev.op = "ack" /\ ev.st = "wait" /\ ev.to = ev.c
    /\ nupd = 2
    /\ cpc[ev.c] = "top"
    /\ lastWritten[ev.u].kind = "params"

\* the modulation field a settings key writes
SettingField(m, k) ==
    CASE k \in MiscKeys -> m.misc[k]
      [] k = "zoom_factor" -> m.zoom
      [] k = "x_shift" -> m.xs
      [] k = "y_shift" -> m.ys
      [] k = "low_bin_sensitivity" -> m.fzc.low
      [] k = "high_bin_sensitivity" -> m.fzc.high
      [] k = "use_test_zoom" -> m.zosc.enabled
      [] k = "use_test_shift" -> m.sosc.enabled
      [] k = "test_x_shift_increment" -> m.sosc.xinc
      [] k = "test_y_shift_increment" -> m.sosc.yinc

FieldKeys ==
    MiscKeys \cup {"zoom_factor", "x_shift", "y_shift", "low_bin_sensitivity",
                   "high_bin_sensitivity", "use_test_zoom", "use_test_shift",
                   "test_x_shift_increment", "test_y_shift_increment"}

\* C21: applying a settings update leaves every input-processor,
\* acid-processor, sensitivity and oscillator setting whose key is absent from
\* the update at the value it had before the update
C21_AbsentKeysRetained ==
    [][ev'.op = "settings" =>
          \A k \in FieldKeys :
              ~Has(ev'.arg, k) => SettingField(mod', k) = SettingField(mod, k)]_vars

\* an update carrying only the high sensitivity has been applied after one that
\* set the x shift and the low sensitivity, and both are still in place
C21_Witness ==
    /\ ev.op = "settings"
    /\ DOMAIN ev.arg = {"high_bin_sensitivity"}
    /\ mod.xs = 1
    /\ mod.fzc.low = 0
    /\ mod.fzc.high = 0

\* C22: the acid_settings of an update are applied to the modulation state when
\* its parameter payload is received, whether or not the payload then passes
\* validation and before the image payload is read; an update discarded for an
\* empty image payload writes no slot, is answered "send_frame" instead of
\* "wait", and leaves the modulation state as the update changed it
C22_OverridesCommittedBeforeAccept ==
    [][/\ (ev'.op = "params" /\ cfg.use_acid_processor) =>
              mod' = FuseUpdate(mod, ev'.arg)
       /\ ev'.op = "resend" =>
              /\ mod' = mod
              /\ slot' = slot
              /\ lastWritten' = lastWritten
              /\ ev'.st = "send_frame"
              /\ cpc'[ev'.c] = "top"]_vars

\* an update carrying an x shift was discarded for its empty image payload: no
\* slot was ever written, and the x shift is in the modulation state
C22_Witness ==
    /\ ev.op = "resend"
    /\ cfg.image_mode
    /\ cfg.use_acid_processor
    /\ lastWritten[ev.u] = NoneParams
    /\ slot[ev.u] = NoneParams
    /\ mod.xs = 1
    /\ InitMod(cfg).xs = 0

====
